---- MODULE Spec2Model ----
(***************************************************************************)
(* A model of full_earnings_scraper.py: the link classifier                *)
(* (_analyze_link), the page scraper (_scrape_page), the frontier expander *)
(* (_find_event_pages), the record store (EarningsDatabase) and the        *)
(* orchestration loop (scrape_company, main).                              *)
(*                                                                         *)
(* Strings are sequences of atomic fragments.  A text is its words joined  *)
(* by one space, an href is its fragments concatenated.  The fragments are *)
(* chosen so that no searched needle straddles two fragments, hence        *)
(* Python's `needle in s` is "some fragment of s contains the needle".     *)
(***************************************************************************)
EXTENDS Integers, Sequences, FiniteSets, TLC

VARIABLES link, result,
          store, stats, last,
          pc, ci, si, ei, k, all_calls, calls, fetched, sleeps, passed,
          processed, exported, hits, answered

vars == <<link, result, store, stats, last, pc, ci, si, ei, k, all_calls,
          calls, fetched, sleeps, passed, processed, exported, hits, answered>>

classifyVars == <<link, result>>
storeVars == <<store, stats, last>>
runVars == <<pc, ci, si, ei, k, all_calls, calls, fetched, sleeps, passed,
             processed, exported, hits, answered>>

(***************************************************************************)
(* Bounds of the model.                                                    *)
(***************************************************************************)
MaxTextLen == 2
MaxHrefLen == 2
MaxHits == 1
NumCompanies == 2
NumStoreUrls == 2

(***************************************************************************)
(* Strings.                                                                *)
(***************************************************************************)
TextWords == {"Q3", "q2", "Earnings Call", "Transcript", "2024", "Contact Us"}
HrefFrags == {"/call", ".MP3", ".mp4", "/media.wav"}

\* str.lower() on each fragment that occurs in a text or in an href
Lower(f) ==
    CASE f = "Q3" -> "q3"
      [] f = "Earnings Call" -> "earnings call"
      [] f = "Transcript" -> "transcript"
      [] f = "Contact Us" -> "contact us"
      [] f = ".MP3" -> ".mp3"
      [] OTHER -> f

LowerStr(s) == [i \in 1..Len(s) |-> Lower(s[i])]

\* the searched needles that occur inside one (lower-case) fragment
NeedlesIn(f) ==
    CASE f = "q3" -> {"q3"}
      [] f = "q2" -> {"q2"}
      [] f = "earnings call" -> {"earnings call"}
      [] f = "transcript" -> {"transcript"}
      [] f = ".mp3" -> {".mp3"}
      [] f = ".mp4" -> {".mp4"}
      [] f = "/media.wav" -> {".wav"}
      [] OTHER -> {}

\* Python's `needle in s`
Contains(s, needle) == \E i \in 1..Len(s) : needle \in NeedlesIn(s[i])

\* the digit captured by re.search(r'q([1-4])', fragment), "" without a match
QuarterDigit(f) ==
    CASE f = "q3" -> "3"
      [] f = "q2" -> "2"
      [] OTHER -> ""

\* f"Q{digit}"
QuarterName(d) ==
    CASE d = "1" -> "Q1"
      [] d = "2" -> "Q2"
      [] d = "3" -> "Q3"
      [] d = "4" -> "Q4"

\* the number captured by re.search(r'(20\d{2})', fragment), 0 without a match
YearIn(f) == IF f = "2024" THEN 2024 ELSE 0

\* index of the leftmost fragment that matches, 0 when there is none
FirstIndex(s, matching) ==
    IF \E i \in 1..Len(s) : s[i] \in matching
    THEN CHOOSE i \in 1..Len(s) :
            s[i] \in matching /\ \A j \in 1..(i-1) : s[j] \notin matching
    ELSE 0

(***************************************************************************)
(* URLs.  A URL is [scheme, netloc, path]; an href is the same record,     *)
(* with scheme = "" when it is relative and path = <<>> when it is empty.  *)
(***************************************************************************)
EmptyHref == [scheme |-> "", netloc |-> "", path |-> <<>>]

\* the fragments of the href string, in order
HrefString(h) ==
    (IF h.scheme = "" THEN <<>> ELSE <<h.scheme, h.netloc>>) \o h.path

\* the fragment starts with "/"
IsRooted(f) == f \in {"/", "/call", "/media.wav", "/events",
                      "/events-and-presentations", "/webcasts", "/earnings",
                      "/investor-relations", "/default.aspx", "/investor",
                      "/en-us", "/Investor"}

\* urlsplit raises ValueError("Invalid IPv6 URL") on an unbalanced bracket
InvalidNetloc(n) == n = "[bad"

\* the directory of a base path: everything up to and including the last "/"
BaseDir(p) ==
    LET last_slash == CHOOSE i \in 1..Len(p) :
                          IsRooted(p[i]) /\ \A j \in (i+1)..Len(p) : ~IsRooted(p[j])
    IN  SubSeq(p, 1, last_slash - 1) \o <<"/">>

\* urllib.parse.urljoin(base, url); [kind |-> "raise"] when it raises
urljoin(base, h) ==
    IF h = EmptyHref THEN [kind |-> "url", url |-> base]
    ELSE IF InvalidNetloc(h.netloc) THEN [kind |-> "raise"]
    ELSE IF h.scheme # "" THEN [kind |-> "url", url |-> h]
    ELSE IF h.path # <<>> /\ IsRooted(h.path[1])
         THEN [kind |-> "url",
               url |-> [scheme |-> base.scheme, netloc |-> base.netloc,
                        path |-> h.path]]
    ELSE [kind |-> "url",
          url |-> [scheme |-> base.scheme, netloc |-> base.netloc,
                   path |-> BaseDir(base.path) \o h.path]]

(***************************************************************************)
(* FullEarningsScraper._analyze_link                                       *)
(***************************************************************************)
earnings_keywords ==
    <<"earnings call", "quarterly results", "q1", "q2", "q3", "q4",
      "conference call", "webcast", "financial results", "investor call">>

audio_exts == <<".mp3", ".wav", ".m4a">>
video_exts == <<".mp4", ".webm">>

AnyIn(needles, s) == \E n \in 1..Len(needles) : Contains(s, needles[n])

HasKeyword(text) == AnyIn(earnings_keywords, LowerStr(text))

ExtractQuarter(text) ==
    LET text_lower == LowerStr(text)
        m == FirstIndex(text_lower,
                        {text_lower[i] : i \in {j \in 1..Len(text_lower) :
                                                    QuarterDigit(text_lower[j]) # ""}})
    IN  IF m = 0 THEN "Unknown" ELSE QuarterName(QuarterDigit(text_lower[m]))

ExtractYear(text, now) ==
    LET m == FirstIndex(text,
                        {text[i] : i \in {j \in 1..Len(text) : YearIn(text[j]) # 0}})
    IN  IF m = 0 THEN now.year ELSE YearIn(text[m])

CallType(href, text) ==
    LET href_lower == LowerStr(HrefString(href))
        text_lower == LowerStr(text)
    IN  IF AnyIn(audio_exts, href_lower) THEN "audio"
        ELSE IF AnyIn(video_exts, href_lower) THEN "video"
        ELSE IF Contains(text_lower, "transcript") THEN "transcript"
        ELSE "webcast"

\* a classifier that also rejects an empty href
analyze_link_strict(href, text, page_url, ticker, company_name, now) ==
    IF ~HasKeyword(text) \/ href = EmptyHref THEN [kind |-> "none"]
    ELSE LET full_url == urljoin(page_url, href)
         IN  IF full_url.kind = "raise" THEN [kind |-> "raise"]
             ELSE [kind |-> "call",
                   call |-> [ticker |-> ticker,
                             company |-> company_name,
                             title |-> text,
                             url |-> full_url.url,
                             call_type |-> CallType(href, text),
                             quarter |-> ExtractQuarter(text),
                             year |-> ExtractYear(text, now),
                             found_on_page |-> page_url,
                             discovered_at |-> now.instant]]

analyze_link(href, text, page_url, ticker, company_name, now) ==
    IF ~HasKeyword(text) THEN [kind |-> "none"]
    ELSE LET full_url == urljoin(page_url, href)
         IN  IF full_url.kind = "raise" THEN [kind |-> "raise"]
             ELSE [kind |-> "call",
                   call |-> [ticker |-> ticker,
                             company |-> company_name,
                             title |-> text,
                             url |-> full_url.url,
                             call_type |-> CallType(href, text),
                             quarter |-> ExtractQuarter(text),
                             year |-> ExtractYear(text, now),
                             found_on_page |-> page_url,
                             discovered_at |-> now.instant]]

(***************************************************************************)
(* FullEarningsScraper._scrape_page                                        *)
(* A response is what session.get produced: an exception, or a status code *)
(* with the anchors (href, stripped text) BeautifulSoup finds in the body. *)
(***************************************************************************)
RECURSIVE AnalyzeAll(_, _, _, _, _)
AnalyzeAll(anchors, url, ticker, company_name, now) ==
    IF anchors = <<>> THEN [kind |-> "calls", calls |-> <<>>]
    ELSE LET a == Head(anchors)
             call == analyze_link(a.href, a.text, url, ticker, company_name, now)
             rest == AnalyzeAll(Tail(anchors), url, ticker, company_name, now)
         IN  IF call.kind = "raise" \/ rest.kind = "raise" THEN [kind |-> "raise"]
             ELSE IF call.kind = "none" THEN rest
             ELSE [kind |-> "calls", calls |-> <<call.call>> \o rest.calls]

scrape_page(url, ticker, company_name, resp, now) ==
    IF resp.kind = "raise" THEN [kind |-> "raise"]
    ELSE IF resp.status_code # 200 THEN [kind |-> "calls", calls |-> <<>>]
    ELSE AnalyzeAll(resp.content, url, ticker, company_name, now)

\* a session whose adapter repeats every request once
session_get_twice(log, url, timeout) ==
    Append(Append(log, [url |-> url, timeout |-> timeout]),
           [url |-> url, timeout |-> timeout])

\* self.session.get(url, timeout=...): one request, recorded in the request log
session_get(log, url, timeout) ==
    Append(log, [url |-> url, timeout |-> timeout])

(***************************************************************************)
(* FullEarningsScraper._find_event_pages                                   *)
(***************************************************************************)
event_paths ==
    << <<"/events">>, <<"/events-and-presentations">>, <<"/webcasts">>,
       <<"/earnings">>, <<"/investor-relations", "/events">> >>

event_urls(base_url) ==
    [i \in 1..Len(event_paths) |->
        [scheme |-> base_url.scheme, netloc |-> base_url.netloc,
         path |-> event_paths[i]]]

\* a handler that catches only what the probe raises
EventHandlerNarrow(raised_by) == IF raised_by = "get" THEN "continue" ELSE "raise"

\* the bare `except: continue` around one candidate: what happens to an
\* exception raised by the probe ("get") or by _scrape_page ("scrape")
EventHandler(raised_by) == "continue"

(***************************************************************************)
(* EarningsDatabase                                                        *)
(* The table is the sequence of its rows in rowid order.  A row has no id  *)
(* column here: INSERT OR REPLACE gives the new row the largest rowid.     *)
(***************************************************************************)
\* INSERT into a table without the UNIQUE constraint
InsertPlain(db, row) == Append(db, row)

\* INSERT OR REPLACE against the UNIQUE constraint on url
InsertOrReplace(db, row) ==
    SelectSeq(db, LAMBDA r : r.url # row.url) \o <<row>>

\* save_call with INSERT OR IGNORE: the row already stored is kept
save_call_ignore(db, call, outcome) ==
    CASE outcome = "connect_error" -> [db |-> db, raised |-> TRUE]
      [] outcome = "execute_error" -> [db |-> db, raised |-> FALSE]
      [] outcome = "commit" ->
            [db |-> IF \E i \in 1..Len(db) : db[i].url = call.url
                    THEN db ELSE Append(db, call),
             raised |-> FALSE]

\* outcome: "commit", "execute_error" (raised inside the try, caught) or
\* "connect_error" (sqlite3.connect raises before the try is entered)
save_call(db, call, outcome) ==
    CASE outcome = "connect_error" -> [db |-> db, raised |-> TRUE]
      [] outcome = "execute_error" -> [db |-> db, raised |-> FALSE]
      [] outcome = "commit" -> [db |-> InsertOrReplace(db, call), raised |-> FALSE]

\* get_stats with COUNT(DISTINCT title) per ticker
get_stats_distinct(db) ==
    LET tickers == {db[i].ticker : i \in 1..Len(db)}
    IN  [total |-> Len(db),
         by_company |-> [t \in tickers |->
                            Cardinality({db[i].title : i \in {j \in 1..Len(db) : db[j].ticker = t}})]]

get_stats(db) ==
    LET tickers == {db[i].ticker : i \in 1..Len(db)}
    IN  [total |-> Len(db),
         by_company |-> [t \in tickers |->
                            Cardinality({i \in 1..Len(db) : db[i].ticker = t})]]

RECURSIVE SumCounts(_, _)
SumCounts(by_company, tickers) ==
    IF tickers = {} THEN 0
    ELSE LET t == CHOOSE x \in tickers : TRUE
         IN  by_company[t] + SumCounts(by_company, tickers \ {t})

(***************************************************************************)
(* main: the configured companies                                          *)
(***************************************************************************)
Url(netloc, path) == [scheme |-> "https", netloc |-> netloc, path |-> path]

companies ==
    << [ticker |-> "AAPL", name |-> "Apple Inc.",
        urls |-> << Url("investor.apple.com", <<"/investor-relations", "/default.aspx">>),
                    Url("investor.apple.com", <<"/events-and-presentations", "/default.aspx">>) >>],
       [ticker |-> "TSLA", name |-> "Tesla Inc.",
        urls |-> << Url("ir.tesla.com", <<"/">>),
                    Url("ir.tesla.com", <<"/events-and-presentations", "/events">>) >>],
       [ticker |-> "GOOGL", name |-> "Alphabet Inc.",
        urls |-> << Url("abc.xyz", <<"/investor", "/">>),
                    Url("abc.xyz", <<"/investor", "/events", "/">>) >>],
       [ticker |-> "MSFT", name |-> "Microsoft Corporation",
        urls |-> << Url("www.microsoft.com", <<"/en-us", "/investor", "/">>),
                    Url("www.microsoft.com",
                        <<"/en-us", "/Investor", "/events", "/default.aspx">>) >>] >>

(***************************************************************************)
(* The environment: the clock, the web and the state of the database file. *)
(***************************************************************************)
\* datetime.now(): the year and the instant
Nows == {[year |-> 2025, instant |-> 1], [year |-> 2026, instant |-> 2]}
Now0 == [year |-> 2025, instant |-> 1]

Seqs(S, n) == UNION {[1..m -> S] : m \in 0..n}

Hrefs ==
    {[scheme |-> "", netloc |-> "", path |-> p] : p \in Seqs(HrefFrags, MaxHrefLen)}
    \cup {[scheme |-> "https", netloc |-> n, path |-> p] :
            n \in {"cdn.example.com", "[bad"}, p \in Seqs(HrefFrags, MaxHrefLen) \ {<<>>}}

Texts == Seqs(TextWords, MaxTextLen)

\* the anchors of the pages the crawl may meet
SharedAnchor ==
    [href |-> [scheme |-> "https", netloc |-> "cdn.example.com", path |-> <<"/call">>],
     text |-> <<"Earnings Call", "2024">>]
LocalAnchor ==
    [href |-> [scheme |-> "", netloc |-> "", path |-> <<"/call", ".MP3">>],
     text |-> <<"Q3", "Transcript">>]
NoiseAnchor ==
    [href |-> [scheme |-> "", netloc |-> "", path |-> <<"/call">>],
     text |-> <<"Contact Us">>]
BrokenAnchor ==
    [href |-> [scheme |-> "https", netloc |-> "[bad", path |-> <<"/call">>],
     text |-> <<"q2">>]

\* the pages that yield a record, and a page whose classification raises
HitPages == { <<NoiseAnchor, SharedAnchor>>, <<LocalAnchor, SharedAnchor>> }
BrokenPage == <<BrokenAnchor>>

Raise == [kind |-> "raise", status_code |-> 0, content |-> <<>>]
Response(status, content) ==
    [kind |-> "response", status_code |-> status, content |-> content]

\* what a request for a page to scrape may produce; at most MaxHits pages of
\* the whole crawl yield records
PageResponses(h) ==
    {Raise, Response(404, <<>>), Response(200, <<>>), Response(200, BrokenPage)}
    \cup {Response(200, c) : c \in IF h < MaxHits THEN HitPages ELSE {}}

\* datetime.now() during the crawl: instants are told apart by the number of
\* pages that yielded records before
Clock(h) == [year |-> 2026, instant |-> h + 1]

\* what a probe may produce (its body is never read)
ProbeResponses == {Raise, Response(404, <<>>), Response(200, <<>>)}

IsHit(resp) == resp.kind = "response" /\ resp.content \in HitPages

SaveOutcomes == {"commit", "execute_error", "connect_error"}

(***************************************************************************)
(* Initial values.                                                         *)
(***************************************************************************)
NoCall == [kind |-> "none"]
Pending == [kind |-> "pending"]
IdleLink == [href |-> EmptyHref, text |-> <<>>, page_url |-> companies[1].urls[1],
             now |-> Now0]
NoStats == [total |-> -1, by_company |-> <<>>]
NoSave == [outcome |-> "none", call |-> NoCall, replaced |-> <<>>, count_before |-> 0]

InitClassify == link = IdleLink /\ result = Pending
InitStore == store = <<>> /\ stats = NoStats /\ last = NoSave
InitRun ==
    /\ pc = "seed" /\ ci = 1 /\ si = 1 /\ ei = 1 /\ k = 1
    /\ all_calls = <<>> /\ calls = <<>> /\ fetched = <<>> /\ sleeps = 0
    /\ passed = <<>> /\ processed = <<>> /\ exported = <<>> /\ hits = 0
    /\ answered = {}

(***************************************************************************)
(* The crawl: main, scrape_company, _find_event_pages.                     *)
(***************************************************************************)
company == companies[ci]
seed_url == company.urls[si]
event_url == event_urls(seed_url)[ei]

\* the for loop of scrape_company moves to the next seed URL, or to the saves
NextSeed ==
    /\ si' = si + 1
    /\ pc' = IF si < Len(company.urls) THEN "seed" ELSE "save"
    /\ k' = 1

\* the for loop of _find_event_pages moves to the next candidate, or returns
NextCandidate ==
    /\ ei' = ei + 1
    /\ pc' = IF ei < Len(event_paths) THEN "probe" ELSE "deeper"

\* an exception leaves _find_event_pages and reaches `except Exception` of
\* scrape_company: the seed URL is abandoned
AbandonSeed(why) ==
    /\ processed' = Append(processed, [seed |-> si, outcome |-> why])
    /\ NextSeed

\* scrape_company, lines 103-107 and 115-117: _scrape_page on the seed URL
ScrapeSeed ==
    /\ pc = "seed"
    /\ \E resp \in PageResponses(hits) :
        LET r == scrape_page(seed_url, company.ticker, company.name, resp, Clock(hits))
        IN  /\ fetched' = session_get(<<>>, seed_url, 10)
            /\ answered' = {}
            /\ hits' = IF IsHit(resp) THEN hits + 1 ELSE hits
            /\ IF r.kind = "raise"
               THEN /\ AbandonSeed("scrape_raised")
                    /\ UNCHANGED <<all_calls, calls, ei>>
               ELSE /\ all_calls' = all_calls \o r.calls
                    /\ calls' = <<>>
                    /\ ei' = 1
                    /\ pc' = "probe"
                    /\ UNCHANGED <<si, k, processed>>
    /\ UNCHANGED <<ci, sleeps, passed, exported, classifyVars, storeVars>>

\* _find_event_pages, lines 208-211 and 215-216: the probe of one candidate
Probe ==
    /\ pc = "probe"
    /\ \E resp \in ProbeResponses :
        /\ fetched' = session_get(fetched, event_url, 5)
        /\ answered' = IF resp.kind = "response" /\ resp.status_code = 200
                       THEN answered \cup {ei} ELSE answered
        /\ IF resp.kind = "raise"
           THEN IF EventHandler("get") = "continue"
                THEN NextCandidate /\ UNCHANGED <<si, k, processed>>
                ELSE AbandonSeed("expand_raised") /\ UNCHANGED ei
           ELSE IF resp.status_code = 200
                THEN pc' = "event" /\ UNCHANGED <<si, k, ei, processed>>
                ELSE NextCandidate /\ UNCHANGED <<si, k, processed>>
    /\ UNCHANGED <<ci, all_calls, calls, sleeps, passed, exported, hits,
                   classifyVars, storeVars>>

\* _find_event_pages, lines 212-216: _scrape_page on a candidate that answered 200
ScrapeEvent ==
    /\ pc = "event"
    /\ \E resp \in PageResponses(hits) :
        LET r == scrape_page(event_url, company.ticker, company.name, resp, Clock(hits))
        IN  /\ fetched' = session_get(fetched, event_url, 10)
            /\ hits' = IF IsHit(resp) THEN hits + 1 ELSE hits
            /\ IF r.kind = "raise"
               THEN IF EventHandler("scrape") = "continue"
                    THEN NextCandidate /\ UNCHANGED <<si, k, processed, calls>>
                    ELSE AbandonSeed("expand_raised") /\ UNCHANGED <<ei, calls>>
               ELSE /\ calls' = calls \o r.calls
                    /\ NextCandidate
                    /\ UNCHANGED <<si, k, processed>>
    /\ UNCHANGED <<ci, all_calls, sleeps, passed, exported, answered,
                   classifyVars, storeVars>>

\* _find_event_pages returns; scrape_company, line 111
ExtendDeeper ==
    /\ pc = "deeper"
    /\ all_calls' = all_calls \o calls
    /\ processed' = Append(processed, [seed |-> si, outcome |-> "ok"])
    /\ pc' = "sleep"
    /\ UNCHANGED <<ci, si, ei, k, calls, fetched, sleeps, passed, exported, hits,
                   answered, classifyVars, storeVars>>

\* scrape_company, line 113: the seed URL is processed, its request log closed
Sleep ==
    /\ pc = "sleep"
    /\ sleeps' = sleeps + 1
    /\ fetched' = <<>>
    /\ answered' = {}
    /\ NextSeed
    /\ UNCHANGED <<ci, ei, all_calls, calls, passed, processed, exported,
                   hits, classifyVars, storeVars>>

\* scrape_company, lines 120-121: one save_call of the loop
SaveCall ==
    /\ pc = "save"
    /\ k <= Len(all_calls)
    /\ \E outcome \in SaveOutcomes :
        LET r == save_call(store, all_calls[k], outcome)
        IN  /\ passed' = Append(passed, all_calls[k])
            /\ store' = r.db
            /\ IF r.raised
               THEN pc' = "aborted" /\ UNCHANGED k
               ELSE pc' = "save" /\ k' = k + 1
    /\ UNCHANGED <<ci, si, ei, all_calls, calls, fetched, sleeps, processed,
                   exported, hits, answered, stats, last, classifyVars>>

\* scrape_company, lines 123-124
ReturnCalls ==
    /\ pc = "save"
    /\ k > Len(all_calls)
    /\ pc' = "returned"
    /\ UNCHANGED <<ci, si, ei, k, all_calls, calls, fetched, sleeps, passed,
                   processed, exported, hits, answered, classifyVars, storeVars>>

\* main, lines 264-270: the next company, or the summary
NextCompany ==
    /\ pc = "returned"
    /\ IF ci < NumCompanies
       THEN /\ ci' = ci + 1
            /\ pc' = "seed"
            /\ si' = 1 /\ ei' = 1 /\ k' = 1
            /\ all_calls' = <<>> /\ calls' = <<>> /\ fetched' = <<>>
            /\ sleeps' = 0 /\ passed' = <<>> /\ processed' = <<>>
            /\ answered' = {}
       ELSE /\ pc' = "stats"
            /\ UNCHANGED <<ci, si, ei, k, all_calls, calls, fetched, sleeps,
                           passed, processed, answered>>
    /\ UNCHANGED <<exported, hits, classifyVars, storeVars>>

\* main, line 276
GetStats ==
    /\ pc = "stats"
    /\ \E outcome \in {"ok", "connect_error"} :
        IF outcome = "ok"
        THEN stats' = get_stats(store) /\ pc' = "export"
        ELSE pc' = "aborted" /\ UNCHANGED stats
    /\ UNCHANGED <<ci, si, ei, k, all_calls, calls, fetched, sleeps, passed,
                   processed, exported, hits, answered, store, last, classifyVars>>

\* main, lines 287-308
Export ==
    /\ pc = "export"
    /\ \E outcome \in {"ok", "connect_error"} :
        IF outcome = "ok"
        THEN exported' = store /\ pc' = "done"
        ELSE pc' = "aborted" /\ UNCHANGED exported
    /\ UNCHANGED <<ci, si, ei, k, all_calls, calls, fetched, sleeps, passed,
                   processed, hits, answered, classifyVars, storeVars>>

Init == InitClassify /\ InitStore /\ InitRun

Next ==
    \/ ScrapeSeed
    \/ Probe
    \/ ScrapeEvent
    \/ ExtendDeeper
    \/ Sleep
    \/ SaveCall
    \/ ReturnCalls
    \/ NextCompany
    \/ GetStats
    \/ Export

Spec == Init /\ [][Next]_vars

(***************************************************************************)
(* The classifier on its own: _analyze_link applied to one anchor.         *)
(***************************************************************************)
LinkPages == {companies[1].urls[1], companies[2].urls[1]}

\* the company whose page the anchor is on
OwnerOf(page_url) ==
    CHOOSE c \in 1..Len(companies) : \E u \in 1..Len(companies[c].urls) :
        companies[c].urls[u] = page_url

InitLinks ==
    /\ \E h \in Hrefs, t \in Texts, p \in LinkPages, n \in Nows :
        link = [href |-> h, text |-> t, page_url |-> p, now |-> n]
    /\ result = Pending
    /\ InitStore
    /\ InitRun

Classify ==
    /\ result = Pending
    /\ result' = analyze_link(link.href, link.text, link.page_url,
                              companies[OwnerOf(link.page_url)].ticker,
                              companies[OwnerOf(link.page_url)].name, link.now)
    /\ UNCHANGED <<link, storeVars, runVars>>

NextClassify == Classify

SpecClassify == InitLinks /\ [][NextClassify]_vars

(***************************************************************************)
(* The record store on its own: any save_call, any get_stats.              *)
(***************************************************************************)
StoreUrls == {event_urls(companies[2].urls[1])[i] : i \in 1..NumStoreUrls}

StoreCalls ==
    {[ticker |-> companies[c].ticker, company |-> companies[c].name, title |-> t,
      url |-> u, call_type |-> "webcast", quarter |-> ExtractQuarter(t),
      year |-> 2026, found_on_page |-> companies[c].urls[1], discovered_at |-> 1] :
        c \in 1..2, t \in {<<"Q3">>, <<"q2">>}, u \in StoreUrls}

\* the rows of the table with this url
RowsWithUrl(db, url) == SelectSeq(db, LAMBDA r : r.url = url)

StoreSave ==
    /\ \E call \in StoreCalls, outcome \in SaveOutcomes :
        /\ store' = save_call(store, call, outcome).db
        /\ last' = [outcome |-> outcome, call |-> call,
                    replaced |-> RowsWithUrl(store, call.url),
                    count_before |-> Len(store)]
    /\ UNCHANGED <<stats, classifyVars, runVars>>

StoreStats ==
    /\ stats' = get_stats(store)
    /\ UNCHANGED <<store, last, classifyVars, runVars>>

NextStore == StoreSave \/ StoreStats

SpecStore == Init /\ [][NextStore]_vars

(***************************************************************************)
(* Properties.                                                             *)
(***************************************************************************)
Range(seq) == {seq[i] : i \in 1..Len(seq)}

\* C1: after any sequence of save_call operations, no two stored records
\* share a url.
UrlIsUnique ==
    \A i, j \in 1..Len(store) : store[i].url = store[j].url => i = j

\* a committed save of a url that was already stored, with another record left
UrlIsUniqueWitness ==
    /\ last.outcome = "commit"
    /\ last.replaced # <<>>
    /\ Len(store) >= 2

\* C2: a committed save_call of a record whose url is already stored leaves
\* exactly one record for that url, equal in every attribute to the record
\* saved, and the same number of records as before.
LastWriteWins ==
    (last.outcome = "commit" /\ last.replaced # <<>>) =>
        /\ Len(RowsWithUrl(store, last.call.url)) = 1
        /\ RowsWithUrl(store, last.call.url)[1] = last.call
        /\ Len(store) = last.count_before

\* a committed re-save of a url with another title and another ticker
LastWriteWinsWitness ==
    /\ last.outcome = "commit"
    /\ last.replaced # <<>>
    /\ last.replaced[1].title # last.call.title
    /\ last.replaced[1].ticker # last.call.ticker

\* C3: the per-ticker counts that get_stats returned sum to the total it
\* returned.
StatsSumIsTotal ==
    stats # NoStats =>
        SumCounts(stats.by_company, DOMAIN stats.by_company) = stats.total

\* statistics taken after a url was re-saved under another ticker, with two
\* tickers in the table
StatsSumIsTotalWitness ==
    /\ stats # NoStats
    /\ stats.total = Len(store)
    /\ Cardinality(DOMAIN stats.by_company) >= 2
    /\ last.outcome = "commit"
    /\ last.replaced # <<>>
    /\ last.replaced[1].ticker # last.call.ticker
    /\ \E i \in 1..Len(store) : store[i] = last.call

Requests(url) == Cardinality({i \in 1..Len(fetched) : fetched[i].url = url})
RequestsWith(url, timeout) ==
    Cardinality({i \in 1..Len(fetched) :
                    fetched[i].url = url /\ fetched[i].timeout = timeout})
Candidate(i) == event_urls(seed_url)[i]

\* C4 as stated: when a seed URL has been processed, the seed page and each
\* candidate URL has been requested exactly once.
EachUrlRequestedOnce ==
    pc = "deeper" =>
        \A u \in {seed_url} \cup Range(event_urls(seed_url)) : Requests(u) = 1

\* C4 as amended: no request is issued twice with the same timeout, a
\* candidate whose probe did not answer 200 is not requested again, and when
\* the seed URL has been processed the seed page was requested once, each
\* candidate was probed once and requested once more exactly when its probe
\* answered 200.
NoFailedFetchRetried ==
    /\ \A e \in Range(fetched) : RequestsWith(e.url, e.timeout) = 1
    /\ pc \in {"probe", "event", "deeper"} =>
        \A i \in 1..Len(event_paths) :
            i \notin answered => RequestsWith(Candidate(i), 10) = 0
    /\ pc = "deeper" =>
        /\ fetched[1] = [url |-> seed_url, timeout |-> 10]
        /\ \A i \in 1..Len(event_paths) :
            /\ RequestsWith(Candidate(i), 5) = 1
            /\ i \in answered => RequestsWith(Candidate(i), 10) = 1
        /\ Len(fetched) = 1 + Len(event_paths) + Cardinality(answered)

\* a seed URL processed with a candidate that answered and one that did not
NoFailedFetchRetriedWitness ==
    /\ pc = "deeper"
    /\ answered # {}
    /\ answered # 1..Len(event_paths)

\* C5: a failed save never ends the run: the run is left by an exception
\* only at the statistics-and-export step, after every record of every
\* company was attempted.
SaveFailureIsNotFatal ==
    pc = "aborted" => (ci = NumCompanies /\ k > Len(all_calls))

SeedsTaken == [j \in 1..Len(processed) |-> processed[j].seed]

\* C6: when scrape_company is left after a seed URL failed, every seed URL
\* was processed in order and every accumulated record was passed to
\* save_call.
SeedFailureKeepsOthers ==
    (/\ pc \in {"returned", "aborted"}
     /\ \E j \in 1..Len(processed) : processed[j].outcome # "ok") =>
        /\ SeedsTaken = [j \in 1..Len(company.urls) |-> j]
        /\ passed = all_calls

\* C7: a politeness delay has occurred after every seed URL processed so far,
\* before the next seed URL is fetched.
DelayAfterEverySeed ==
    /\ pc = "seed" => sleeps = si - 1
    /\ pc \in {"save", "returned"} => sleeps = Len(company.urls)

\* the file extension of an href: the extension its last fragment ends with
ExtensionOf(f) ==
    CASE f = ".mp3" -> ".mp3"
      [] f = ".mp4" -> ".mp4"
      [] f = "/media.wav" -> ".wav"
      [] OTHER -> ""

HrefExtension(href) ==
    LET h == LowerStr(HrefString(href))
    IN  IF h = <<>> THEN "" ELSE ExtensionOf(h[Len(h)])

\* C8: the call type of every classified link is 'audio' when the href has
\* an audio file extension, else 'video' when it has a video file extension,
\* else 'transcript' when the text contains 'transcript', else 'webcast'.
CallTypeByExtension ==
    result.kind = "call" =>
        result.call.call_type =
            IF HrefExtension(link.href) \in Range(audio_exts) THEN "audio"
            ELSE IF HrefExtension(link.href) \in Range(video_exts) THEN "video"
            ELSE IF \E i \in 1..Len(link.text) : link.text[i] = "Transcript"
                 THEN "transcript"
            ELSE "webcast"

ProbedUrls ==
    LET probes == SelectSeq(fetched, LAMBDA e : e.timeout = 5)
    IN  [i \in 1..Len(probes) |-> probes[i].url]

\* C9: no exception leaves _find_event_pages; when it returns, every
\* candidate was probed in the fixed order, every record it returns was found
\* on a candidate that answered 200, and it returns nothing when none did.
ExpansionNeverRaises ==
    /\ \A j \in 1..Len(processed) : processed[j].outcome # "expand_raised"
    /\ pc = "deeper" =>
        /\ ProbedUrls = event_urls(seed_url)
        /\ \A c \in Range(calls) :
            \E i \in answered : c.found_on_page = Candidate(i)
        /\ answered = {} => calls = <<>>

\* the expansion returns records although its first candidate failed
ExpansionNeverRaisesWitness ==
    /\ pc = "deeper"
    /\ 1 \notin answered
    /\ answered # {}
    /\ calls # <<>>
    /\ Len(fetched) > 1 + Len(event_paths) + Len(calls)

\* C10 as stated: an anchor whose href is empty or whose text is empty is
\* rejected.
EmptyHrefOrTextRejected ==
    (result # Pending /\ (link.href = EmptyHref \/ link.text = <<>>)) =>
        result.kind = "none"

\* the words of the vocabulary that carry an earnings keyword
KeywordWords == {"Q3", "q2", "Earnings Call"}

\* C10 as amended: an anchor whose text is empty is rejected whatever its
\* href; an anchor whose href is empty and whose text carries an earnings
\* keyword yields a record whose url is the url of the page.
EmptyTextRejected ==
    result # Pending =>
        /\ link.text = <<>> => result.kind = "none"
        /\ (link.href = EmptyHref /\ \E i \in 1..Len(link.text) : link.text[i] \in KeywordWords)
            => (result.kind = "call" /\ result.call.url = link.page_url)

\* an anchor with an empty href was classified as an earnings call
EmptyTextRejectedWitness ==
    /\ result.kind = "call"
    /\ link.href = EmptyHref

====
